---- MODULE Spec2Model ----
(***************************************************************************)
(* Early-stopping triggers of stanza/monitoring/trigger.py:                *)
(* ThresholdEarlyStopping, PatienceEarlyStopping and                       *)
(* SlopeThresholdEarlyStopping.  One behaviour of the model is the life of *)
(* one trigger object: it is constructed (Init) and then receives any      *)
(* sequence of should_stop(new_value) and reset() calls.                   *)
(***************************************************************************)
EXTENDS Integers, Sequences, FiniteSets

(***************************************************************************)
(* Bounds of the model.                                                    *)
(***************************************************************************)
\* calls recorded per run (between two resets) of each kind of trigger
MaxThresholdRun == 3
MaxRun == 5
MaxSlopeRun == 4
MaxPatience == 2
MaxWindow == 3

(***************************************************************************)
(* Python floats.  A number is a pair <<n, d>> standing for n/d with       *)
(* d >= 0; d = 0 gives the three non-finite floats.  Finite numbers        *)
(* are in lowest terms, so equal numbers are equal pairs.                  *)
(***************************************************************************)
Real(n) == <<n, 1>>
PosInf == <<1, 0>>
NegInf == <<-1, 0>>
NaN == <<0, 0>>
IsFinite(a) == a[2] # 0

\* IEEE comparison a < b: false as soon as one side is NaN
Lt(a, b) ==
    /\ a # NaN
    /\ b # NaN
    /\ IF a[2] = 0 /\ b[2] = 0 THEN a[1] < b[1]
                               ELSE a[1] * b[2] < b[1] * a[2]

Gt(a, b) == Lt(b, a)

Abs(n) == IF n < 0 THEN -n ELSE n

RECURSIVE GCD(_, _)
GCD(a, b) == IF b = 0 THEN a ELSE GCD(b, a % b)

\* n/d in lowest terms with d > 0 (d # 0)
Frac(n, d) ==
    LET g == GCD(Abs(n), Abs(d))
        sg == IF d < 0 THEN -1 ELSE 1
    IN  <<sg * (n \div g), sg * (d \div g)>>

\* arithmetic on finite numbers
Add(a, b) == Frac(a[1] * b[2] + b[1] * a[2], a[2] * b[2])
Sub(a, b) == Frac(a[1] * b[2] - b[1] * a[2], a[2] * b[2])
Mul(a, b) == Frac(a[1] * b[1], a[2] * b[2])
Div(a, b) == Frac(a[1] * b[2], a[2] * b[1])

(***************************************************************************)
(* The class hierarchy and Python's method lookup.                         *)
(***************************************************************************)
Kinds == {"ThresholdEarlyStopping", "PatienceEarlyStopping",
          "SlopeThresholdEarlyStopping"}

\* method resolution order of each concrete class
MRO(cls) ==
    IF cls = "ThresholdEarlyStopping"
    THEN <<"ThresholdEarlyStopping", "EarlyStopping", "Trigger", "object">>
    ELSE <<cls, "EarlyStopping", "Trigger", "StatefulTriggerMixin", "object">>

\* the methods each class body defines
Defines(cls) ==
    CASE cls = "StatefulTriggerMixin" -> {"reset"}
      [] cls = "EarlyStopping" -> {"should_stop"}
      [] cls = "ThresholdEarlyStopping" -> {"__init__", "should_stop"}
      [] cls = "PatienceEarlyStopping" -> {"__init__", "should_stop", "reset"}
      [] cls = "SlopeThresholdEarlyStopping" -> {"__init__", "should_stop", "reset"}
      [] OTHER -> {}

\* the class whose method runs for obj.name(), "AttributeError" when none has it
Resolve(cls, name) ==
    LET mro == MRO(cls)
        hits == {i \in 1..Len(mro) : name \in Defines(mro[i])}
    IN  IF hits = {} THEN "AttributeError"
        ELSE mro[CHOOSE i \in hits : \A j \in hits : i <= j]

(***************************************************************************)
(* Constructor defaults and the arguments the model constructs with.       *)
(***************************************************************************)
Threshold_default_min == NegInf

Threshold_default_max_neg == NegInf

Threshold_default_max == PosInf

ThresholdMins == {Threshold_default_min, Real(2)}
ThresholdMaxs == {Threshold_default_max, Real(1)}
ThresholdValues == {Real(1), Real(2), PosInf, NaN}

PatienceValues == {NegInf, Real(1), Real(3), Real(5)}

Slope_default_min == NegInf
Slope_default_max == PosInf

\* the <<min_thresh, max_thresh>> pairs the model constructs with
SlopeBounds == {<<Slope_default_min, Slope_default_max>>,
                <<Slope_default_min, <<1, 2>>>>,
                <<Real(0), Real(2)>>}
SlopeValues == {Real(0), Real(1), Real(2), Real(3)}

VARIABLES
    kind,             \* class of the trigger object
    min, max,         \* self.min, self.max (threshold and slope triggers)
    patience,         \* self.patience
    best_so_far,      \* self.best_so_far
    time_since_best,  \* self.time_since_best
    points_seen,      \* self.points_seen
    time,             \* self.time
    x, y, A,          \* self.x, self.y, self.A
    op,               \* the last call made on the object
    arg,              \* its new_value argument
    outcome,          \* "returned" or the exception it raised
    ret,              \* the value a should_stop call returned
    run,              \* values passed since construction or the last reset()
    outs,             \* the values should_stop returned for them
    fitted,           \* the last should_stop call reached the least-squares fit
    resetAfterCalls   \* some reset() completed on an object that had seen values

vars == <<kind, min, max, patience, best_so_far, time_since_best, points_seen,
          time, x, y, A, op, arg, outcome, ret, run, outs, fitted,
          resetAfterCalls>>

params == <<kind, min, max, patience, time, x, A>>

(***************************************************************************)
(* ThresholdEarlyStopping                                                  *)
(***************************************************************************)
\* variant: the upper bound itself already triggers
Threshold_should_stop_ge(lo, hi, new_value) ==
    new_value = hi \/ Gt(new_value, hi) \/ Lt(new_value, lo)

\* variant: both tests must succeed
Threshold_should_stop_and(lo, hi, new_value) ==
    Gt(new_value, hi) /\ Lt(new_value, lo)

\* return new_value > self.max or new_value < self.min
Threshold_should_stop(lo, hi, new_value) ==
    Gt(new_value, hi) \/ Lt(new_value, lo)

(***************************************************************************)
(* PatienceEarlyStopping                                                   *)
(***************************************************************************)
Patience_init == [best_so_far |-> NegInf, time_since_best |-> 0]

\* variant: stops as soon as the counter reaches patience
Patience_should_stop_ge_patience(s, p, new_value) ==
    IF Gt(new_value, s.best_so_far)
    THEN [best_so_far |-> new_value, time_since_best |-> 0, ret |-> FALSE]
    ELSE [best_so_far |-> s.best_so_far,
          time_since_best |-> s.time_since_best + 1,
          ret |-> s.time_since_best + 1 >= p]

\* variant: a value equal to the best counts as an improvement
Patience_should_stop_tie(s, p, new_value) ==
    IF ~Lt(new_value, s.best_so_far)
    THEN [best_so_far |-> new_value, time_since_best |-> 0, ret |-> FALSE]
    ELSE [best_so_far |-> s.best_so_far,
          time_since_best |-> s.time_since_best + 1,
          ret |-> s.time_since_best + 1 > p]

\* variant: an improvement leaves the counter running
Patience_should_stop_keep_count(s, p, new_value) ==
    IF Gt(new_value, s.best_so_far)
    THEN [best_so_far |-> new_value, time_since_best |-> s.time_since_best,
          ret |-> FALSE]
    ELSE [best_so_far |-> s.best_so_far,
          time_since_best |-> s.time_since_best + 1,
          ret |-> s.time_since_best + 1 > p]

\* variant: the best value is overwritten on every call
Patience_should_stop_last(s, p, new_value) ==
    IF Gt(new_value, s.best_so_far)
    THEN [best_so_far |-> new_value, time_since_best |-> 0, ret |-> FALSE]
    ELSE [best_so_far |-> new_value,
          time_since_best |-> s.time_since_best + 1,
          ret |-> s.time_since_best + 1 > p]

\* variant: the counter starts again once the trigger has fired
Patience_should_stop_rearm(s, p, new_value) ==
    IF Gt(new_value, s.best_so_far)
    THEN [best_so_far |-> new_value, time_since_best |-> 0, ret |-> FALSE]
    ELSE [best_so_far |-> s.best_so_far,
          time_since_best |-> IF s.time_since_best + 1 > p
                              THEN 0 ELSE s.time_since_best + 1,
          ret |-> s.time_since_best + 1 > p]

\* should_stop as a function of the fields it reads: the fields it leaves
\* and the value it returns
Patience_should_stop(s, p, new_value) ==
    IF Gt(new_value, s.best_so_far)
    THEN [best_so_far |-> new_value, time_since_best |-> 0, ret |-> FALSE]
    ELSE [best_so_far |-> s.best_so_far,
          time_since_best |-> s.time_since_best + 1,
          ret |-> s.time_since_best + 1 > p]

(***************************************************************************)
(* SlopeThresholdEarlyStopping                                             *)
(***************************************************************************)
\* np.array(range(time))
Slope_x(W) == [i \in 1..W |-> i - 1]

\* np.vstack([self.x, np.ones(len(self.x))]).T : one row <<x[i], 1>> per point
Slope_A(xx) == [i \in 1..Len(xx) |-> <<Real(xx[i]), Real(1)>>]

\* np.zeros(time)
Zeros(W) == [i \in 1..W |-> Real(0)]

Slope_init(W) == [points_seen |-> 0, y |-> Zeros(W)]

\* variant: the buffer moves the other way, the new value enters in front
Shift_right(yy, new_value) ==
    [i \in 1..Len(yy) |-> IF i > 1 THEN yy[i - 1] ELSE new_value]

\* self.y[:-1] = self.y[1:] ; self.y[-1] = new_value
Shift(yy, new_value) ==
    [i \in 1..Len(yy) |-> IF i < Len(yy) THEN yy[i + 1] ELSE new_value]

RECURSIVE Sum(_, _)
Sum(s, n) == IF n = 0 THEN Real(0) ELSE Add(Sum(s, n - 1), s[n])

\* np.linalg.lstsq(A, y)[0] for a two-column A of full rank: the <<m, c>>
\* minimising the squared error, from the normal equations (A^T A) p = A^T y
lstsq(AA, yy) ==
    LET n   == Len(AA)
        S11 == Sum([i \in 1..n |-> Mul(AA[i][1], AA[i][1])], n)
        S12 == Sum([i \in 1..n |-> Mul(AA[i][1], AA[i][2])], n)
        S22 == Sum([i \in 1..n |-> Mul(AA[i][2], AA[i][2])], n)
        T1  == Sum([i \in 1..n |-> Mul(AA[i][1], yy[i])], n)
        T2  == Sum([i \in 1..n |-> Mul(AA[i][2], yy[i])], n)
        det == Sub(Mul(S11, S22), Mul(S12, S12))
    IN  <<Div(Sub(Mul(S22, T1), Mul(S12, T2)), det),
          Div(Sub(Mul(S11, T2), Mul(S12, T1)), det)>>

\* variant: the warm-up lasts one call longer
Slope_should_stop_late(s, lo, hi, W, AA, new_value) ==
    LET ny == Shift(s.y, new_value)
    IN  IF s.points_seen <= W - 1
        THEN [points_seen |-> s.points_seen + 1, y |-> ny,
              ret |-> FALSE, fitted |-> FALSE]
        ELSE LET m == lstsq(AA, ny)[1]
             IN  [points_seen |-> s.points_seen, y |-> ny,
                  ret |-> Lt(m, lo) \/ Gt(m, hi), fitted |-> TRUE]

\* variant: points_seen counts every call
Slope_should_stop_count_all(s, lo, hi, W, AA, new_value) ==
    LET ny == Shift(s.y, new_value)
    IN  IF s.points_seen < W - 1
        THEN [points_seen |-> s.points_seen + 1, y |-> ny,
              ret |-> FALSE, fitted |-> FALSE]
        ELSE LET m == lstsq(AA, ny)[1]
             IN  [points_seen |-> s.points_seen + 1, y |-> ny,
                  ret |-> Lt(m, lo) \/ Gt(m, hi), fitted |-> TRUE]

\* variant: the fit is made before the new value enters the buffer
Slope_should_stop_stale(s, lo, hi, W, AA, new_value) ==
    LET ny == Shift(s.y, new_value)
    IN  IF s.points_seen < W - 1
        THEN [points_seen |-> s.points_seen + 1, y |-> ny,
              ret |-> FALSE, fitted |-> FALSE]
        ELSE LET m == lstsq(AA, s.y)[1]
             IN  [points_seen |-> s.points_seen, y |-> ny,
                  ret |-> Lt(m, lo) \/ Gt(m, hi), fitted |-> TRUE]

\* should_stop as a function of the fields it reads: the fields it leaves,
\* the value it returns and whether it reached the fit
Slope_should_stop(s, lo, hi, W, AA, new_value) ==
    LET ny == Shift(s.y, new_value)
    IN  IF s.points_seen < W - 1
        THEN [points_seen |-> s.points_seen + 1, y |-> ny,
              ret |-> FALSE, fitted |-> FALSE]
        ELSE LET m == lstsq(AA, ny)[1]
             IN  [points_seen |-> s.points_seen, y |-> ny,
                  ret |-> Lt(m, lo) \/ Gt(m, hi), fitted |-> TRUE]

(***************************************************************************)
(* Construction                                                            *)
(***************************************************************************)
Threshold_new ==
    /\ kind = "ThresholdEarlyStopping"
    /\ min \in ThresholdMins
    /\ max \in ThresholdMaxs
    /\ patience = 0
    /\ best_so_far = NegInf
    /\ time_since_best = 0
    /\ points_seen = 0
    /\ time = 0
    /\ x = <<>>
    /\ y = <<>>
    /\ A = <<>>

Patience_new ==
    /\ kind = "PatienceEarlyStopping"
    /\ min = NegInf
    /\ max = PosInf
    /\ patience \in 0..MaxPatience
    /\ best_so_far = Patience_init.best_so_far
    /\ time_since_best = Patience_init.time_since_best
    /\ points_seen = 0
    /\ time = 0
    /\ x = <<>>
    /\ y = <<>>
    /\ A = <<>>

Slope_new ==
    /\ kind = "SlopeThresholdEarlyStopping"
    /\ \E b \in SlopeBounds : min = b[1] /\ max = b[2]
    /\ patience = 0
    /\ best_so_far = NegInf
    /\ time_since_best = 0
    /\ time \in 2..MaxWindow
    /\ points_seen = Slope_init(time).points_seen
    /\ x = Slope_x(time)
    /\ y = Slope_init(time).y
    /\ A = Slope_A(x)

Init ==
    /\ Threshold_new \/ Patience_new \/ Slope_new
    /\ op = "__init__"
    /\ arg = NaN
    /\ outcome = "returned"
    /\ ret = FALSE
    /\ run = <<>>
    /\ outs = <<>>
    /\ fitted = FALSE
    /\ resetAfterCalls = FALSE

(***************************************************************************)
(* Calls                                                                   *)
(***************************************************************************)
\* bookkeeping of a should_stop(new_value) call that returned r
Returned(new_value, r) ==
    /\ op' = "should_stop"
    /\ arg' = new_value
    /\ outcome' = "returned"
    /\ ret' = r
    /\ run' = Append(run, new_value)
    /\ outs' = Append(outs, r)
    /\ UNCHANGED resetAfterCalls

ThresholdShouldStop ==
    /\ Resolve(kind, "should_stop") = "ThresholdEarlyStopping"
    /\ Len(run) < MaxThresholdRun
    /\ \E new_value \in ThresholdValues :
         Returned(new_value, Threshold_should_stop(min, max, new_value))
    /\ fitted' = FALSE
    /\ UNCHANGED <<params, best_so_far, time_since_best, points_seen, y>>

\* variant: patience is used up as a countdown
PatienceShouldStop_countdown ==
    /\ Resolve(kind, "should_stop") = "PatienceEarlyStopping"
    /\ Len(run) < MaxRun
    /\ \E new_value \in PatienceValues :
         LET r == Patience_should_stop(
                      [best_so_far |-> best_so_far,
                       time_since_best |-> time_since_best],
                      patience, new_value)
         IN  /\ best_so_far' = r.best_so_far
             /\ time_since_best' = r.time_since_best
             /\ patience' = IF r.time_since_best > 0 /\ patience > 0
                            THEN patience - 1 ELSE patience
             /\ Returned(new_value, r.ret)
    /\ fitted' = FALSE
    /\ UNCHANGED <<kind, min, max, time, x, A, points_seen, y>>

PatienceShouldStop ==
    /\ Resolve(kind, "should_stop") = "PatienceEarlyStopping"
    /\ Len(run) < MaxRun
    /\ \E new_value \in PatienceValues :
         LET r == Patience_should_stop(
                      [best_so_far |-> best_so_far,
                       time_since_best |-> time_since_best],
                      patience, new_value)
         IN  /\ best_so_far' = r.best_so_far
             /\ time_since_best' = r.time_since_best
             /\ Returned(new_value, r.ret)
    /\ fitted' = FALSE
    /\ UNCHANGED <<params, points_seen, y>>

SlopeShouldStop ==
    /\ Resolve(kind, "should_stop") = "SlopeThresholdEarlyStopping"
    /\ Len(run) < MaxSlopeRun
    /\ \E new_value \in SlopeValues :
         LET r == Slope_should_stop([points_seen |-> points_seen, y |-> y],
                                    min, max, time, A, new_value)
         IN  /\ points_seen' = r.points_seen
             /\ y' = r.y
             /\ fitted' = r.fitted
             /\ Returned(new_value, r.ret)
    /\ UNCHANGED <<params, best_so_far, time_since_best>>

\* bookkeeping of a reset() call that returned
ResetReturned ==
    /\ op' = "reset"
    /\ outcome' = "returned"
    /\ resetAfterCalls' = (resetAfterCalls \/ run # <<>>)
    /\ run' = <<>>
    /\ outs' = <<>>
    /\ UNCHANGED <<arg, ret, fitted>>

\* variant: reset() forgets the counter
PatienceReset_keep_count ==
    /\ Resolve(kind, "reset") = "PatienceEarlyStopping"
    /\ best_so_far' = NegInf
    /\ ResetReturned
    /\ UNCHANGED <<params, time_since_best, points_seen, y>>

PatienceReset ==
    /\ Resolve(kind, "reset") = "PatienceEarlyStopping"
    /\ best_so_far' = NegInf
    /\ time_since_best' = 0
    /\ ResetReturned
    /\ UNCHANGED <<params, points_seen, y>>

\* variant: reset() clears the buffer but not the count
SlopeReset_keep_points ==
    /\ Resolve(kind, "reset") = "SlopeThresholdEarlyStopping"
    /\ y' = [i \in 1..Len(y) |-> Real(0)]
    /\ ResetReturned
    /\ UNCHANGED <<params, points_seen, best_so_far, time_since_best>>

\* variant: reset() clears the count but not the buffer
SlopeReset_keep_y ==
    /\ Resolve(kind, "reset") = "SlopeThresholdEarlyStopping"
    /\ points_seen' = 0
    /\ ResetReturned
    /\ UNCHANGED <<params, y, best_so_far, time_since_best>>

SlopeReset ==
    /\ Resolve(kind, "reset") = "SlopeThresholdEarlyStopping"
    /\ points_seen' = 0
    /\ y' = [i \in 1..Len(y) |-> Real(0)]
    /\ ResetReturned
    /\ UNCHANGED <<params, best_so_far, time_since_best>>

\* variant: an unsupported reset() returns as if it had worked
ResetRaises_silent ==
    /\ Resolve(kind, "reset") \in {"AttributeError", "StatefulTriggerMixin"}
    /\ op' = "reset"
    /\ outcome' = "returned"
    /\ UNCHANGED <<params, best_so_far, time_since_best, points_seen, y,
                   arg, ret, run, outs, fitted, resetAfterCalls>>

\* reset() on an object whose class does not implement it: the lookup fails
\* (AttributeError) or finds StatefulTriggerMixin.reset (NotImplementedError)
ResetRaises ==
    /\ Resolve(kind, "reset") \in {"AttributeError", "StatefulTriggerMixin"}
    /\ op' = "reset"
    /\ outcome' = IF Resolve(kind, "reset") = "AttributeError"
                  THEN "AttributeError" ELSE "NotImplementedError"
    /\ UNCHANGED <<params, best_so_far, time_since_best, points_seen, y,
                   arg, ret, run, outs, fitted, resetAfterCalls>>

Next ==
    \/ ThresholdShouldStop
    \/ PatienceShouldStop
    \/ SlopeShouldStop
    \/ PatienceReset
    \/ SlopeReset
    \/ ResetRaises

Spec == Init /\ [][Next]_vars

TypeOK ==
    /\ kind \in Kinds
    /\ time_since_best \in 0..MaxRun
    /\ points_seen \in 0..MaxWindow
    /\ Len(y) = time
    /\ Len(run) = Len(outs)
    /\ Len(run) <= MaxRun

(***************************************************************************)
(* Operators over the recorded history, for stating the properties.        *)
(***************************************************************************)
Front(s) == SubSeq(s, 1, Len(s) - 1)
Prefix(s, k) == SubSeq(s, 1, k)
Range(s) == {s[i] : i \in 1..Len(s)}
Eq(a, b) == a[1] * b[2] = b[1] * a[2]

\* the greatest value of s, -infinity for the empty sequence
MaxOf(s) ==
    CHOOSE v \in Range(s) \cup {NegInf} :
        \A w \in Range(s) \cup {NegInf} : ~Lt(v, w)

\* the positions of s holding a value greater than every earlier one
NewMaxima(s) == {i \in 1..Len(s) : Gt(s[i], MaxOf(Prefix(s, i - 1)))}

\* the number of values of s after its last strictly-new maximum
CallsSinceNewMax(s) ==
    IF NewMaxima(s) = {} THEN Len(s)
    ELSE Len(s) - (CHOOSE i \in NewMaxima(s) : \A j \in NewMaxima(s) : j <= i)

\* the fields and the last result of a newly constructed object fed s
RECURSIVE PatienceAfter(_, _)
PatienceAfter(p, s) ==
    IF s = <<>> THEN Patience_init
    ELSE Patience_should_stop(PatienceAfter(p, Front(s)), p, s[Len(s)])

RECURSIVE SlopeAfter(_, _, _, _)
SlopeAfter(lo, hi, W, s) ==
    IF s = <<>> THEN Slope_init(W)
    ELSE Slope_should_stop(SlopeAfter(lo, hi, W, Front(s)), lo, hi, W,
                           Slope_A(Slope_x(W)), s[Len(s)])

\* the textbook slope of the least-squares line through (i - 1, pts[i]):
\* sum (x - xbar)(y - ybar) / sum (x - xbar)^2
OLSSlope(pts) ==
    LET n    == Len(pts)
        xs   == [i \in 1..n |-> Real(i - 1)]
        xbar == Div(Sum(xs, n), Real(n))
        ybar == Div(Sum(pts, n), Real(n))
        sxy  == Sum([i \in 1..n |-> Mul(Sub(xs[i], xbar), Sub(pts[i], ybar))], n)
        sxx  == Sum([i \in 1..n |-> Mul(Sub(xs[i], xbar), Sub(xs[i], xbar))], n)
    IN  Div(sxy, sxx)

\* the last W values of s, oldest first
LastW(s, W) == SubSeq(s, Len(s) - W + 1, Len(s))

IsPatience == kind = "PatienceEarlyStopping"
IsSlope == kind = "SlopeThresholdEarlyStopping"
IsThreshold == kind = "ThresholdEarlyStopping"

(***************************************************************************)
(* Properties                                                              *)
(***************************************************************************)

C3_ResetReplay ==
    /\ IsPatience =>
          /\ op = "reset" =>
                /\ best_so_far = Patience_init.best_so_far
                /\ time_since_best = Patience_init.time_since_best
          /\ LET new == PatienceAfter(patience, run)
             IN  /\ best_so_far = new.best_so_far
                 /\ time_since_best = new.time_since_best
                 /\ run # <<>> => outs[Len(run)] = new.ret
    /\ IsSlope =>
          /\ op = "reset" =>
                /\ points_seen = Slope_init(time).points_seen
                /\ y = Slope_init(time).y
          /\ LET new == SlopeAfter(min, max, time, run)
             IN  /\ points_seen = new.points_seen
                 /\ y = new.y
                 /\ run # <<>> => outs[Len(run)] = new.ret

C3_Witness ==
    /\ IsSlope
    /\ resetAfterCalls
    /\ op = "should_stop"
    /\ Len(run) > time
    /\ ret = TRUE
    /\ \E k \in 1..Len(run) : ~outs[k] /\ k >= time

\* C4: the first W-1 should_stop calls of a SlopeThresholdEarlyStopping run
\* return FALSE without fitting, and the W-th call is the first to reach the
\* fit.
C4_WarmUp ==
    IsSlope =>
        /\ \A k \in 1..Len(run) : k < time => outs[k] = FALSE
        /\ op = "should_stop" => (fitted <=> Len(run) >= time)
        /\ Len(run) < time => points_seen = Len(run)

C4_Witness ==
    /\ IsSlope
    /\ time = 3
    /\ resetAfterCalls
    /\ op = "should_stop"
    /\ Len(run) = 3
    /\ fitted
    /\ ret = TRUE

\* C5: after the warm-up should_stop returns (m < min or m > max) for m the
\* least-squares slope of the last W values at times 0..W-1; with W = 3 the
\* values 1, 2, 3 have slope 1, so the third call returns TRUE for max 1/2
\* and FALSE for max 2.
C5_SlopeFit ==
    IsSlope =>
        /\ Len(run) >= time =>
              LET m == OLSSlope(LastW(run, time))
              IN  outs[Len(run)] = (Lt(m, min) \/ Gt(m, max))
        /\ (time = 3 /\ run = <<Real(1), Real(2), Real(3)>>) =>
              /\ Eq(lstsq(A, y)[1], Real(1))
              /\ max = <<1, 2>> => outs[3] = TRUE
              /\ max = Real(2) => outs[3] = FALSE

C5_Witness ==
    /\ IsSlope
    /\ time = 3
    /\ run = <<Real(1), Real(2), Real(3)>>
    /\ max = <<1, 2>>
    /\ op = "should_stop"
    /\ ret = TRUE

\* C6: every should_stop(v) call of a ThresholdEarlyStopping returns
\* (v > max or v < min), whatever was passed before it.
C6_ThresholdVerdict ==
    IsThreshold =>
        \A k \in 1..Len(run) :
            outs[k] = (Gt(run[k], max) \/ Lt(run[k], min))

C6_Witness ==
    /\ IsThreshold
    /\ Len(run) = 3
    /\ run[1] = run[3]
    /\ outs = <<TRUE, FALSE, TRUE>>

\* C7: the defaults of ThresholdEarlyStopping are -infinity and +infinity,
\* and an object constructed with them returns FALSE for every finite value.
C7_ThresholdDefaults ==
    /\ Threshold_default_min = NegInf
    /\ Threshold_default_max = PosInf
    /\ (IsThreshold /\ min = Threshold_default_min
                    /\ max = Threshold_default_max) =>
          \A k \in 1..Len(run) : IsFinite(run[k]) => outs[k] = FALSE

C7_Witness ==
    /\ IsThreshold
    /\ min = NegInf
    /\ max = PosInf
    /\ run = <<Real(1), Real(2), Real(1)>>
    /\ op = "should_stop"

\* C8: reset() on a ThresholdEarlyStopping ends in an error and never
\* returns; reset() on the two stateful triggers returns.
C8_ResetCapability ==
    op = "reset" =>
        /\ IsThreshold => outcome \in {"AttributeError", "NotImplementedError"}
        /\ (IsPatience \/ IsSlope) => outcome = "returned"

C8_Witness ==
    /\ IsThreshold
    /\ op = "reset"
    /\ outcome = "AttributeError"
    /\ run # <<>>

\* C9: a should_stop call of PatienceEarlyStopping leaves time_since_best 0
\* iff its value is greater than the best_so_far it found, and otherwise one
\* more than it found; time_since_best is the number of calls since the last
\* strict improvement.
C9_Counter ==
    /\ [](IsPatience => /\ time_since_best \in Nat
                        /\ time_since_best = CallsSinceNewMax(run))
    /\ [][(IsPatience /\ op' = "should_stop") =>
            /\ (time_since_best' = 0) <=> Gt(arg', best_so_far)
            /\ ~Gt(arg', best_so_far) =>
                  time_since_best' = time_since_best + 1]_vars

C9_Witness ==
    /\ IsPatience
    /\ op = "should_stop"
    /\ Len(run) = 5
    /\ time_since_best = 0
    /\ \E k \in 1..4 : outs[k] = TRUE

\* C10: best_so_far is the maximum of the values passed since construction
\* or the last reset(), -infinity when there is none, and no should_stop
\* call lowers it.
C10_Best ==
    /\ [](IsPatience => best_so_far = MaxOf(run))
    /\ [][(IsPatience /\ op' = "should_stop") =>
            ~Lt(best_so_far', best_so_far)]_vars

C10_Witness ==
    /\ IsPatience
    /\ resetAfterCalls
    /\ op = "should_stop"
    /\ run = <<Real(3), Real(5), Real(1)>>
    /\ best_so_far = Real(5)

\* C11: whenever a should_stop call reaches the fit, at least W values have
\* been passed since construction or the last reset() and the W slots of the
\* buffer hold the last W of them, so no zero fill takes part in the fit.
C11_NoFitOnFill ==
    (IsSlope /\ op = "should_stop" /\ fitted) =>
        /\ Len(run) >= time
        /\ y = LastW(run, time)

C11_Witness ==
    /\ IsSlope
    /\ resetAfterCalls
    /\ op = "should_stop"
    /\ fitted
    /\ Len(run) = time
    /\ \A i \in 1..time : y[i] # Real(0)

Min2(a, b) == IF a < b THEN a ELSE b

\* C12: the buffer has W slots; after n calls since construction or the last
\* reset() its last min(n, W) slots hold the min(n, W) latest values, newest
\* last, and the slots before them hold 0; a call drops the oldest slot,
\* moves the others down by one and puts its value last.
C12_Window ==
    /\ [](IsSlope =>
            LET n == Min2(Len(run), time)
            IN  /\ Len(y) = time
                /\ \A i \in 1..time :
                      y[i] = IF i <= time - n THEN Real(0)
                             ELSE run[Len(run) - time + i])
    /\ [][(IsSlope /\ op' = "should_stop") =>
            /\ \A i \in 1..(time - 1) : y'[i] = y[i + 1]
            /\ y'[time] = arg']_vars

C12_Witness ==
    /\ IsSlope
    /\ resetAfterCalls
    /\ time = 3
    /\ run = <<Real(2), Real(3)>>
    /\ y = <<Real(0), Real(2), Real(3)>>

\* C13 as stated: points_seen is the number of values passed since
\* construction or the last reset(), capped at W.
C13_Original ==
    IsSlope => points_seen = Min2(Len(run), time)

\* C13: points_seen is the number of values passed since construction or the
\* last reset(), capped at W - 1: the call that reaches the fit leaves it.
C13_PointsSeen ==
    IsSlope => points_seen = Min2(Len(run), time - 1)

C13_Witness ==
    /\ IsSlope
    /\ resetAfterCalls
    /\ Len(run) > time
    /\ points_seen = time - 1

\* C14: the result of a call that reaches the fit depends on the last W
\* values only: it is the result a newly constructed object with the same
\* parameters gives after these W values alone, and the result of the same
\* run started with any other first value.
C14_WindowOnly ==
    (IsSlope /\ op = "should_stop" /\ Len(run) >= time) =>
        /\ ret = SlopeAfter(min, max, time, LastW(run, time)).ret
        /\ Len(run) > time =>
              \A v \in SlopeValues :
                  ret = SlopeAfter(min, max, time, <<v>> \o Tail(run)).ret

C14_Witness ==
    /\ IsSlope
    /\ resetAfterCalls
    /\ op = "should_stop"
    /\ time = 3
    /\ Len(run) = 4
    /\ run[1] # Real(0)
    /\ ret = TRUE
    /\ outs[3] = FALSE

\* C15: once a should_stop call of PatienceEarlyStopping has returned TRUE,
\* the next should_stop call returns FALSE if its value is greater than
\* best_so_far and TRUE otherwise; only reset() comes between.
C15_Latched ==
    /\ [](IsPatience =>
            \A k \in 1..(Len(run) - 1) :
                outs[k] => (outs[k + 1] =
                              ~Gt(run[k + 1], MaxOf(Prefix(run, k)))))
    /\ [][(IsPatience /\ op = "should_stop" /\ ret /\ op' = "should_stop") =>
            ret' = ~Gt(arg', best_so_far)]_vars

C15_Witness ==
    /\ IsPatience
    /\ patience = 1
    /\ run = <<Real(3), Real(1), Real(1), Real(1), Real(5)>>
    /\ outs = <<FALSE, FALSE, TRUE, TRUE, FALSE>>

\* C16: no call changes the parameters (min, max, patience, time, x, A);
\* should_stop of ThresholdEarlyStopping changes no field at all; a
\* should_stop call in the warm-up of SlopeThresholdEarlyStopping changes
\* only y and points_seen.
C16_Frame ==
    [][/\ UNCHANGED params
       /\ (IsThreshold /\ op' = "should_stop") =>
             UNCHANGED <<min, max, best_so_far, time_since_best,
                         points_seen, y>>
       /\ (IsSlope /\ op' = "should_stop" /\ ~fitted') =>
             /\ UNCHANGED <<min, max, time, x, A, best_so_far,
                            time_since_best>>
             /\ points_seen' = points_seen + 1]_vars

C16_Witness ==
    /\ IsSlope
    /\ resetAfterCalls
    /\ op = "should_stop"
    /\ ~fitted
    /\ time = 3
    /\ points_seen = 2
    /\ y = <<Real(0), Real(1), Real(3)>>
    /\ x = <<0, 1, 2>>

\* C17: a ThresholdEarlyStopping may be constructed with min > max, and it
\* then returns TRUE for every value that is not NaN.
C17_Inverted ==
    (IsThreshold /\ Gt(min, max)) =>
        \A k \in 1..Len(run) : run[k] # NaN => outs[k] = TRUE

C17_Witness ==
    /\ IsThreshold
    /\ min = Real(2)
    /\ max = Real(1)
    /\ outcome = "returned"
    /\ run = <<Real(1), Real(2), PosInf>>
    /\ outs = <<TRUE, TRUE, TRUE>>

====
